---- MODULE Spec2Model ----
(***************************************************************************)
(* A model of scripts/build_ood_dataset.py of UNIREX: the rationale        *)
(* aligner (align_rationale_with_tokens), the example builder              *)
(* (update_dataset_dict and the per-dataset branches of main) and the      *)
(* dataset dictionary they fill.                                           *)
(*                                                                         *)
(* Strings are sequences of one-character strings.  A rationale value is   *)
(* the integer 0 or 1 (the floats 0.0 and 1.0 of the source).  Python's    *)
(* 0-based positions are 1-based here.                                     *)
(***************************************************************************)
EXTENDS Integers, Sequences, FiniteSets, TLC

VARIABLES
    dataset,            \* args.dataset
    num_special_tokens, \* dataset_info[args.dataset]['num_special_tokens']
    dataset_dict,       \* the eight field lists filled by the build loop
    idx,                \* index of the next example of the split
    pc,                 \* position of main: "build", "saved", "aborted"
    error,              \* the exception that ended the run, "none" if none
    rng,                \* state of numpy's random generator: numbers drawn since the seed
    actual_max_length,  \* main's actual_max_length
    attempt,            \* what was handed to the builder in the last pass of the loop
    files,              \* the field files written by save_dataset, NoFiles before
    a_pc,               \* position of the aligner's caller: "call", "returned", "raised", "accepted", "rejected"
    a_input_ids,        \* align_rationale_with_tokens: input_ids
    a_raw_tokens,       \* align_rationale_with_tokens: raw_tokens
    a_raw_rationale,    \* align_rationale_with_tokens: raw_rationale
    a_ret,              \* what the call produced: [err, rationale, owner]
    b_pc,               \* position of one pass of a branch run on its own: "start", "prepared", "stored", "raised"
    b_in,               \* the example the pass is given
    b_mid,              \* what the branch prepares for the builder: the window cut, the aligned rationale
    b_out,              \* what the builder made of it: [err, dataset_dict, actual_max_length, rng]
    s_pc,               \* position of sample_dataset: "start", "strata", "rounding", "concatenate", "sampled"
    s_x,                \* stratified_sampling: x, the labels of the split
    s_n_samples,        \* stratified_sampling: n_samples
    s_stratify,         \* stratified_sampling: stratify
    sampled_idcs,       \* stratified_sampling: sampled_idcs, one array per draw, 0-based indices
    r_pc,               \* position of a run of main, "idle" between runs
    args,               \* the arguments of the run
    fs,                 \* the files under data_dir: each file's contents, or Absent
    r_run               \* the run: its number, the files it found, what it loaded or built, what it wrote

a_vars == <<a_pc, a_input_ids, a_raw_tokens, a_raw_rationale, a_ret>>

b_vars == <<b_pc, b_in, b_mid, b_out>>

m_vars == <<dataset, num_special_tokens, dataset_dict, idx, pc, error, rng, actual_max_length, attempt, files>>

s_vars == <<s_pc, s_x, s_n_samples, s_stratify, sampled_idcs>>

r_vars == <<r_pc, args, fs, r_run>>

vars == <<dataset, num_special_tokens, dataset_dict, idx, pc, error, rng, actual_max_length, attempt, files,
          a_pc, a_input_ids, a_raw_tokens, a_raw_rationale, a_ret,
          b_pc, b_in, b_mid, b_out,
          s_pc, s_x, s_n_samples, s_stratify, sampled_idcs,
          r_pc, args, fs, r_run>>

----------------------------------------------------------------------------
(* Bounds of the model *)

\* total number of characters of the subword tokens of one text
MaxTokChars == 3
\* total number of characters of the words of one text
MaxWordChars == 2
\* max_length of the datasets whose examples hold one text between two markers
MaxLength == 4
\* number of examples of the split
num_examples == 2

----------------------------------------------------------------------------
(* Sequences *)

RECURSIVE Flatten(_)
Flatten(ss) == IF ss = <<>> THEN <<>> ELSE Head(ss) \o Flatten(Tail(ss))

RECURSIVE SumSeq(_)
SumSeq(s) == IF s = <<>> THEN 0 ELSE Head(s) + SumSeq(Tail(s))

\* Python's [x] * n, the empty list for n <= 0
Repeat(x, n) == [k \in 1..n |-> x]

RECURSIVE Splits(_, _)
\* the ways to cut n items into m consecutive non-empty runs: the run lengths
Splits(n, m) ==
    IF m = 0 THEN (IF n = 0 THEN {<<>>} ELSE {})
    ELSE UNION {{<<len>> \o rest : rest \in Splits(n - len, m - 1)} : len \in 1..n}

\* the items of run i of a split
RunOf(items, split, i) ==
    LET before == SumSeq(SubSeq(split, 1, i - 1))
    IN  SubSeq(items, before + 1, before + split[i])

----------------------------------------------------------------------------
(* The tokenizer's vocabulary (external collaborator) *)

\* characters a word of the text is made of
WordChars == {"a", "b"}
\* the tokenizer's boundary marker, which no word contains
MarkerChars == {"#"}
TokenChars == WordChars \cup MarkerChars

\* the digit of a character in a token id
CharDigit(c) == CASE c = "a" -> 1 [] c = "b" -> 2 [] OTHER -> 3
DigitChar(d) == CASE d = 1 -> "a" [] d = 2 -> "b" [] OTHER -> "#"

\* tokenizer.cls_token_id, sep_token_id, pad_token_id, unk_token_id
cls_token_id == 101
sep_token_id == 102
pad_token_id == 0
unk_token_id == 100

\* ids of the subword tokens of one and of two characters (digits 1..3, base 4)
TokenIds == (1..3) \cup {4 * d1 + d2 : d1 \in 1..3, d2 \in 1..3}

RECURSIVE IdToToken(_)
\* tokenizer.convert_ids_to_tokens for one id: the characters its digits stand for;
\* the unknown token's surface form has no character of any word
IdToToken(id) ==
    IF id = unk_token_id THEN <<"#", "#">>
    ELSE IF id < 4 THEN <<DigitChar(id)>>
    ELSE Append(IdToToken(id \div 4), DigitChar(id % 4))

\* tokenizer.convert_ids_to_tokens
convert_ids_to_tokens(input_ids) ==
    [k \in 1..Len(input_ids) |-> IdToToken(input_ids[k])]

----------------------------------------------------------------------------
(* align_rationale_with_tokens *)

NoReturn == [err |-> "none", rationale |-> <<>>, owner |-> <<>>]
Raise(e) == [err |-> e, rationale |-> <<>>, owner |-> <<>>]

RECURSIVE ConsumeChars_NoIndexError(_, _, _)
\* ConsumeChars with the comparison guarded by "cur_raw_token and ...": the
\* characters of a token that follow the end of the word are skipped
ConsumeChars_NoIndexError(cur_token, cur_raw_token, recon) ==
    IF cur_token = <<>> THEN [err |-> "none", cur_raw_token |-> cur_raw_token, recon |-> recon]
    ELSE IF cur_raw_token # <<>> /\ Head(cur_token) = Head(cur_raw_token)
         THEN ConsumeChars_NoIndexError(Tail(cur_token), Tail(cur_raw_token), Append(recon, Head(cur_token)))
         ELSE ConsumeChars_NoIndexError(Tail(cur_token), cur_raw_token, recon)

RECURSIVE ConsumeChars(_, _, _)
\* the loop "for char in cur_token": a character equal to the next character of
\* the word is consumed, any other is skipped; cur_raw_token[0] of an exhausted
\* word raises IndexError
ConsumeChars(cur_token, cur_raw_token, recon) ==
    IF cur_token = <<>> THEN [err |-> "none", cur_raw_token |-> cur_raw_token, recon |-> recon]
    ELSE IF cur_raw_token = <<>> THEN [err |-> "IndexError", cur_raw_token |-> cur_raw_token, recon |-> recon]
    ELSE IF Head(cur_token) = Head(cur_raw_token)
         THEN ConsumeChars(Tail(cur_token), Tail(cur_raw_token), Append(recon, Head(cur_token)))
         ELSE ConsumeChars(Tail(cur_token), cur_raw_token, recon)

RECURSIVE WhileWord_AppendOnce(_, _, _, _, _, _, _, _)
\* WhileWord with rationale.append moved behind the while loop: one entry per word
WhileWord_AppendOnce(tokens, j, cur_raw_token, recon, cur_raw_rationale, i, rationale, owner) ==
    IF cur_raw_token = <<>>
    THEN [err |-> "none", j |-> j, recon |-> recon,
          rationale |-> Append(rationale, cur_raw_rationale), owner |-> Append(owner, i)]
    ELSE IF j > Len(tokens)
    THEN [err |-> "TypeError", j |-> j, recon |-> recon, rationale |-> rationale, owner |-> owner]
    ELSE LET c == ConsumeChars(tokens[j], cur_raw_token, recon)
         IN  IF c.err # "none"
             THEN [err |-> c.err, j |-> j, recon |-> c.recon, rationale |-> rationale, owner |-> owner]
             ELSE WhileWord_AppendOnce(tokens, j + 1, c.cur_raw_token, c.recon, cur_raw_rationale, i,
                                       rationale, owner)

RECURSIVE WhileWord(_, _, _, _, _, _, _, _)
\* the loop "while len(cur_raw_token) > 0": each pass consumes one token, appends
\* the word's rationale for it and moves to the next token (None past the last
\* one, which the next pass cannot iterate: TypeError).  owner records, beside
\* each appended entry, the word it was appended for.
WhileWord(tokens, j, cur_raw_token, recon, cur_raw_rationale, i, rationale, owner) ==
    IF cur_raw_token = <<>>
    THEN [err |-> "none", j |-> j, recon |-> recon, rationale |-> rationale, owner |-> owner]
    ELSE IF j > Len(tokens)
    THEN [err |-> "TypeError", j |-> j, recon |-> recon, rationale |-> rationale, owner |-> owner]
    ELSE LET c == ConsumeChars(tokens[j], cur_raw_token, recon)
         IN  IF c.err # "none"
             THEN [err |-> c.err, j |-> j, recon |-> c.recon, rationale |-> rationale, owner |-> owner]
             ELSE WhileWord(tokens, j + 1, c.cur_raw_token, c.recon, cur_raw_rationale, i,
                            Append(rationale, cur_raw_rationale), Append(owner, i))

RECURSIVE ForWords(_, _, _, _, _, _, _)
\* the loop "for i in range(len(raw_tokens))" with its closing assertion
ForWords(tokens, raw_tokens, raw_rationale, i, j, rationale, owner) ==
    IF i > Len(raw_tokens) THEN [err |-> "none", rationale |-> rationale, owner |-> owner]
    ELSE LET w == WhileWord(tokens, j, raw_tokens[i], <<>>, raw_rationale[i], i, rationale, owner)
         IN  IF w.err # "none" THEN Raise(w.err)
             ELSE IF w.recon # raw_tokens[i] THEN Raise("AssertionError")
             ELSE ForWords(tokens, raw_tokens, raw_rationale, i + 1, w.j, w.rationale, w.owner)

\* align_rationale_with_tokens: tokens[0] of an empty token list raises IndexError
align_rationale_with_tokens(input_ids, raw_tokens, raw_rationale) ==
    LET tokens == convert_ids_to_tokens(input_ids)
    IN  IF tokens = <<>> THEN Raise("IndexError")
        ELSE ForWords(tokens, raw_tokens, raw_rationale, 1, 1, <<>>, <<>>)

----------------------------------------------------------------------------
(* The dataset dictionary, the classes and the random generator *)

\* dataset_info[args.dataset]['classes']
classes == <<"c0", "c1">>
\* classes.index(x)
ClassIndex(x) == (CHOOSE k \in 1..Len(classes) : classes[k] = x) - 1

\* dataset_dict = ddict(list)
EmptyDict ==
    [item_idx |-> <<>>, input_ids |-> <<>>, attention_mask |-> <<>>, rationale |-> <<>>,
     inv_rationale |-> <<>>, rand_rationale |-> <<>>, has_rationale |-> <<>>, label |-> <<>>]

\* AppendExample with a label that counts up with the examples stored before
AppendExample_LabelDrifts(dd, i, input_ids, attention_mask, rationale, inv_rationale, rand_rationale, has_rationale, label) ==
    [item_idx |-> Append(dd.item_idx, i),
     input_ids |-> Append(dd.input_ids, input_ids),
     attention_mask |-> Append(dd.attention_mask, attention_mask),
     rationale |-> Append(dd.rationale, rationale),
     inv_rationale |-> Append(dd.inv_rationale, inv_rationale),
     rand_rationale |-> Append(dd.rand_rationale, rand_rationale),
     has_rationale |-> Append(dd.has_rationale, has_rationale),
     label |-> Append(dd.label, label + Len(dd.label))]

\* the eight appends that close the pass of the loop for one example
AppendExample(dd, i, input_ids, attention_mask, rationale, inv_rationale, rand_rationale, has_rationale, label) ==
    [item_idx |-> Append(dd.item_idx, i),
     input_ids |-> Append(dd.input_ids, input_ids),
     attention_mask |-> Append(dd.attention_mask, attention_mask),
     rationale |-> Append(dd.rationale, rationale),
     inv_rationale |-> Append(dd.inv_rationale, inv_rationale),
     rand_rationale |-> Append(dd.rand_rationale, rand_rationale),
     has_rationale |-> Append(dd.has_rationale, has_rationale),
     label |-> Append(dd.label, label)]

\* the n-th number the seeded generator yields
Noise(n) == ((7 * n + 3) % 5) - 2
\* list(np.random.randn(n)) with s numbers drawn before
Randn(s, n) == [k \in 1..n |-> Noise(s + k - 1)]

\* what a pass of the loop leaves: the exception raised if any, the dictionary,
\* actual_max_length and the generator's state
Built(dd, amax, r) == [err |-> "none", dataset_dict |-> dd, actual_max_length |-> amax, rng |-> r]
Failed(e, dd, amax, r) == [err |-> e, dataset_dict |-> dd, actual_max_length |-> amax, rng |-> r]

----------------------------------------------------------------------------
(* update_dataset_dict *)

\* PadFits without the assertion
PadFits_Unchecked(num_pad_tokens) == TRUE

\* PadFits that lets an example through that is one id too long
PadFits_OffByOne(num_pad_tokens) == num_pad_tokens >= -1

\* assert num_pad_tokens >= 0
PadFits(num_pad_tokens) == num_pad_tokens >= 0

\* AttentionMask with every position marked real
AttentionMask_AllOnes(num_tokens, num_pad_tokens) == Repeat(1, num_tokens + num_pad_tokens)

\* attention_mask = [1] * num_tokens + [0] * num_pad_tokens
AttentionMask(num_tokens, num_pad_tokens) == Repeat(1, num_tokens) \o Repeat(0, num_pad_tokens)

\* Frame without the entry of the start marker: the rationale starts at the marker
Frame_Unframed(rationale, num_pad_tokens) == rationale \o Repeat(0, num_pad_tokens + 2)

\* Frame that marks the two markers as rationale
Frame_MarkersOn(rationale, num_pad_tokens) == <<1>> \o rationale \o <<1>> \o Repeat(0, num_pad_tokens)

\* rationale = [0] + rationale + [0], then rationale += [0] * num_pad_tokens
Frame(rationale, num_pad_tokens) == <<0>> \o rationale \o <<0>> \o Repeat(0, num_pad_tokens)

\* InvRationale that inverts only the entries of the text, not the markers and the padding
InvRationale_TextOnly(rationale) ==
    [k \in 1..Len(rationale) |-> IF rationale[k] > 0 THEN 1 - rationale[k] ELSE 0]

\* inv_rationale = [1.0 - x for x in rationale]
InvRationale(rationale) == [k \in 1..Len(rationale) |-> 1 - rationale[k]]

\* HasRationale that never finds the rationale empty
HasRationale_Always(rationale) == 1

\* has_rationale = int(sum(rationale) > 0)
HasRationale(rationale) == IF SumSeq(rationale) > 0 THEN 1 ELSE 0

update_dataset_dict(i, dd, input_ids_in, rationale_in, max_length, amax, r, classification) ==
    LET input_ids == <<cls_token_id>> \o input_ids_in \o <<sep_token_id>>
        num_tokens == Len(input_ids)
        amax1 == IF num_tokens > amax THEN num_tokens ELSE amax
        num_pad_tokens == max_length - num_tokens
        padded_ids == input_ids \o Repeat(pad_token_id, num_pad_tokens)
        attention_mask == AttentionMask(num_tokens, num_pad_tokens)
        rationale == Frame(rationale_in, num_pad_tokens)
        inv_rationale == InvRationale(rationale)
        rand_rationale == Randn(r, max_length)
        has_rationale == HasRationale(rationale)
        label == ClassIndex(classification)
    IN  IF Len(input_ids) # Len(rationale_in) + 2 THEN Failed("AssertionError", dd, amax, r)
        ELSE IF ~PadFits(num_pad_tokens) THEN Failed("AssertionError", dd, amax, r)
        ELSE IF has_rationale = 0 THEN Failed("ValueError", dd, amax, r + max_length)
        ELSE Built(AppendExample(dd, i, padded_ids, attention_mask, rationale, inv_rationale,
                                 rand_rationale, has_rationale, label),
                   amax1, r + max_length)

----------------------------------------------------------------------------
(* main, cose branch: one row per answer candidate *)

\* tokenizer('Q:', add_special_tokens=False)['input_ids'] and the same for 'A:'
q_marker == <<81>>
a_marker == <<65>>

NoRows == [input_ids |-> <<>>, attention_mask |-> <<>>, rationale |-> <<>>, inv_rationale |-> <<>>,
           rand_rationale |-> <<>>, has_rationale |-> <<>>]

RECURSIVE CoseRows(_, _, _, _, _, _, _)
\* the loop "for answer in answer_ids"
CoseRows(answer_ids, question, question_rationale, max_length, amax, r, rows) ==
    IF answer_ids = <<>> THEN [err |-> "none", rows |-> rows, actual_max_length |-> amax, rng |-> r]
    ELSE
      LET answer == Head(answer_ids)
          cur_input_ids == <<cls_token_id>> \o q_marker \o question \o <<sep_token_id>>
                              \o a_marker \o answer \o <<sep_token_id>>
          num_tokens == Len(cur_input_ids)
          amax1 == IF num_tokens > amax THEN num_tokens ELSE amax
          num_pad_tokens == max_length - num_tokens
          padded_ids == cur_input_ids \o Repeat(pad_token_id, num_pad_tokens)
          cur_attention_mask == AttentionMask(num_tokens, num_pad_tokens)
          cur_rationale == Frame(Repeat(0, Len(q_marker)) \o question_rationale \o <<0>>
                                    \o Repeat(0, Len(a_marker)) \o Repeat(0, Len(answer)),
                                 num_pad_tokens)
          cur_has_rationale == HasRationale(cur_rationale)
      IN  IF ~PadFits(num_pad_tokens)
          THEN [err |-> "AssertionError", rows |-> rows, actual_max_length |-> amax1, rng |-> r]
          ELSE IF Len(padded_ids) # Len(cur_rationale)
          THEN [err |-> "AssertionError", rows |-> rows, actual_max_length |-> amax1, rng |-> r]
          ELSE IF cur_has_rationale = 0
          THEN [err |-> "ValueError", rows |-> rows, actual_max_length |-> amax1, rng |-> r + max_length]
          ELSE CoseRows(Tail(answer_ids), question, question_rationale, max_length, amax1, r + max_length,
                        [input_ids |-> Append(rows.input_ids, padded_ids),
                         attention_mask |-> Append(rows.attention_mask, cur_attention_mask),
                         rationale |-> Append(rows.rationale, cur_rationale),
                         inv_rationale |-> Append(rows.inv_rationale, InvRationale(cur_rationale)),
                         rand_rationale |-> Append(rows.rand_rationale, Randn(r, max_length)),
                         has_rationale |-> Append(rows.has_rationale, cur_has_rationale)])

\* one pass of the cose loop
cose_build(i, dd, inst, max_length, amax, r) ==
    LET c == CoseRows(inst.answer_ids, inst.question, inst.question_rationale, max_length, amax, r, NoRows)
    IN  IF c.err # "none" THEN Failed(c.err, dd, c.actual_max_length, c.rng)
        ELSE Built(AppendExample(dd, i, c.rows.input_ids, c.rows.attention_mask, c.rows.rationale,
                                 c.rows.inv_rationale, c.rows.rand_rationale, c.rows.has_rationale,
                                 ClassIndex(inst.classification)),
                   c.actual_max_length, c.rng)

----------------------------------------------------------------------------
(* main, sst and hatexplain branches *)

\* raw_rationale = [1.0 if x >= 0.5 else 0.0 for x in instance['rationale']], scores in tenths
Binarize(scores) == [k \in 1..Len(scores) |-> IF scores[k] >= 5 THEN 1 ELSE 0]

\* PadRawRationale that fills the missing entries with 1.0
PadRawRationale_Ones(raw_tokens, raw_rationale) ==
    raw_rationale \o Repeat(1, Len(raw_tokens) - Len(raw_rationale))

\* raw_rationale + diff * [0.0] when the rationale is shorter than the word list
PadRawRationale(raw_tokens, raw_rationale) ==
    raw_rationale \o Repeat(0, Len(raw_tokens) - Len(raw_rationale))

\* 0 if 1.0 not in rationale else 1
SstHasRationale(rationale) == IF \E k \in 1..Len(rationale) : rationale[k] = 1 THEN 1 ELSE 0

\* from the aligned rationale to the appended example: the part the two branches share
PadAndAppend(i, dd, input_ids_in, aligned, max_length, nst, amax, r, check_unk, has_rationale, label) ==
    LET num_tokens == Len(input_ids_in) + nst
        amax1 == IF num_tokens > amax THEN num_tokens ELSE amax
        num_pad_tokens == max_length - num_tokens
        input_ids == <<cls_token_id>> \o input_ids_in \o <<sep_token_id>> \o Repeat(pad_token_id, num_pad_tokens)
        attn_mask == AttentionMask(num_tokens, num_pad_tokens)
        rationale == Frame(aligned, num_pad_tokens)
        inv_rationale == InvRationale(rationale)
        rand_rationale == Randn(r, max_length)
    IN  IF ~PadFits(num_pad_tokens) THEN Failed("AssertionError", dd, amax1, r)
        ELSE IF check_unk /\ \E k \in 1..Len(input_ids) : input_ids[k] = unk_token_id
        THEN Failed("AssertionError", dd, amax1, r)
        ELSE IF Len(input_ids) # max_length \/ Len(attn_mask) # max_length \/ Len(rationale) # max_length
        THEN Failed("AssertionError", dd, amax1, r)
        ELSE Built(AppendExample(dd, i, input_ids, attn_mask, rationale, inv_rationale, rand_rationale,
                                 has_rationale, label),
                   amax1, r + max_length)

\* the length rule, the aligner and its check: the part before the padding
AlignWords(raw_tokens, raw_rationale_in, input_ids, max_length) ==
    LET raw_rationale == PadRawRationale(raw_tokens, raw_rationale_in)
    IN  IF Len(raw_tokens) < Len(raw_rationale_in) THEN Raise("AssertionError")
        ELSE IF Len(raw_tokens) > max_length THEN Raise("AssertionError")
        ELSE LET al == align_rationale_with_tokens(input_ids, raw_tokens, raw_rationale)
             IN  IF al.err # "none" THEN al
                 ELSE IF Len(input_ids) # Len(al.rationale) THEN Raise("AssertionError")
                 ELSE al

\* one pass of the sst loop
sst_build(i, dd, inst, max_length, nst, amax, r) ==
    LET al == AlignWords(inst.words, Binarize(inst.rationale), inst.input_ids, max_length)
    IN  IF al.err # "none" THEN Failed(al.err, dd, amax, r)
        ELSE PadAndAppend(i, dd, inst.input_ids, al.rationale, max_length, nst, amax, r, TRUE,
                          SstHasRationale(Frame(al.rationale, max_length - Len(inst.input_ids) - nst)),
                          ClassIndex(inst.classification))

\* one pass of the hatexplain loop
hatexplain_build(i, dd, row, max_length, nst, amax, r) ==
    LET raw_rationale == IF Len(row.rationale) = 0 THEN Repeat(0, Len(row.words)) ELSE row.rationale
        has_rationale == IF Len(row.rationale) = 0 THEN 0 ELSE 1
        al == AlignWords(row.words, raw_rationale, row.input_ids, max_length)
    IN  IF al.err # "none" THEN Failed(al.err, dd, amax, r)
        ELSE PadAndAppend(i, dd, row.input_ids, al.rationale, max_length, nst, amax, r, FALSE,
                          has_rationale, row.label)

----------------------------------------------------------------------------
(* The inputs of one call of the aligner *)

RECURSIVE TokenCharCount(_)
TokenCharCount(input_ids) ==
    IF input_ids = <<>> THEN 0
    ELSE Len(IdToToken(Head(input_ids))) + TokenCharCount(Tail(input_ids))

RECURSIVE IdListsWithin(_)
\* the lists of token ids whose tokens have at most c characters in all
IdListsWithin(c) ==
    {<<>>} \cup UNION {{<<t>> \o rest : rest \in IdListsWithin(c - Len(IdToToken(t)))} :
                        t \in {u \in TokenIds : Len(IdToToken(u)) <= c}}

\* the words of at most c characters: text.split() yields no empty word
WordsWithin(c) == UNION {[1..n -> WordChars] : n \in 1..c}

RECURSIVE WordListsWithin(_)
\* the word lists of at most c characters in all
WordListsWithin(c) ==
    {<<>>} \cup UNION {{<<w>> \o rest : rest \in WordListsWithin(c - Len(w))} : w \in WordsWithin(c)}

\* the binarised word-level rationales of a word list
RawRationales(raw_tokens) == [1..Len(raw_tokens) -> {0, 1}]

----------------------------------------------------------------------------
(* The state of the builder before main runs, and of the aligner when it   *)
(* is run inside the builder rather than on its own                        *)

\* nothing tried yet
NoAttempt == [input_ids |-> <<>>, positive |-> FALSE]
\* nothing written under data_path yet
NoFiles == [written |-> FALSE, data |-> EmptyDict]

BuilderIdle ==
    /\ dataset = "none"
    /\ num_special_tokens = 0
    /\ dataset_dict = EmptyDict
    /\ idx = 0
    /\ pc = "idle"
    /\ error = "none"
    /\ rng = 0
    /\ actual_max_length = 0
    /\ attempt = NoAttempt
    /\ files = NoFiles

\* no pass of a branch is run on its own
Nothing == [kind |-> "none"]

BranchIdle ==
    /\ b_pc = "idle"
    /\ b_in = Nothing
    /\ b_mid = Nothing
    /\ b_out = Nothing

AlignerIdle ==
    /\ a_pc = "idle"
    /\ a_input_ids = <<>>
    /\ a_raw_tokens = <<>>
    /\ a_raw_rationale = <<>>
    /\ a_ret = NoReturn

\* sample_dataset is not called
SamplerIdle ==
    /\ s_pc = "idle"
    /\ s_x = <<>>
    /\ s_n_samples = 0
    /\ s_stratify = <<>>
    /\ sampled_idcs = <<>>

\* main is looked at from inside one run; the files it starts from are not
RunIdle ==
    /\ r_pc = "idle"
    /\ args = Nothing
    /\ fs = Nothing
    /\ r_run = Nothing

----------------------------------------------------------------------------
(* The aligner and the caller's check of its result *)

AlignInit ==
    /\ BuilderIdle
    /\ BranchIdle
    /\ SamplerIdle
    /\ RunIdle
    /\ a_pc = "call"
    /\ a_input_ids \in IdListsWithin(MaxTokChars)
    /\ a_raw_tokens \in WordListsWithin(MaxWordChars)
    /\ a_raw_rationale \in RawRationales(a_raw_tokens)
    /\ a_ret = NoReturn

\* rationale = align_rationale_with_tokens(input_ids, raw_tokens, raw_rationale, tokenizer)
AlignCall ==
    /\ a_pc = "call"
    /\ a_ret' = align_rationale_with_tokens(a_input_ids, a_raw_tokens, a_raw_rationale)
    /\ a_pc' = IF a_ret'.err = "none" THEN "returned" ELSE "raised"
    /\ UNCHANGED <<a_input_ids, a_raw_tokens, a_raw_rationale>>
    /\ UNCHANGED m_vars
    /\ UNCHANGED b_vars
    /\ UNCHANGED s_vars
    /\ UNCHANGED r_vars

\* AlignAssert without the assertion: every normal return is let through
AlignAssert_NoCheck ==
    /\ a_pc = "returned"
    /\ a_pc' = "accepted"
    /\ UNCHANGED <<a_input_ids, a_raw_tokens, a_raw_rationale, a_ret>>
    /\ UNCHANGED m_vars
    /\ UNCHANGED b_vars
    /\ UNCHANGED s_vars
    /\ UNCHANGED r_vars

\* assert len(input_ids) == len(rationale)
AlignAssert ==
    /\ a_pc = "returned"
    /\ a_pc' = IF Len(a_input_ids) = Len(a_ret.rationale) THEN "accepted" ELSE "rejected"
    /\ UNCHANGED <<a_input_ids, a_raw_tokens, a_raw_rationale, a_ret>>
    /\ UNCHANGED m_vars
    /\ UNCHANGED b_vars
    /\ UNCHANGED s_vars
    /\ UNCHANGED r_vars

AlignNext == AlignCall \/ AlignAssert

SpecAlign == AlignInit /\ [][AlignNext]_vars

----------------------------------------------------------------------------
(* The inputs of main: the dataset, its configuration and its examples *)

\* the branches of main that build a rationale; "esnli" stands for the four
\* branches (esnli, fever, movies, multirc) that end in update_dataset_dict
Datasets == {"esnli", "cose", "sst", "hatexplain"}

\* dataset_info[args.dataset]['num_special_tokens']
SpecialTokenCounts(d) == IF d \in {"sst", "hatexplain"} THEN {2, 3} ELSE {2}

\* dataset_info[args.dataset]['max_length'][args.arch]
max_length ==
    IF dataset = "cose" THEN MaxLength + Len(q_marker) + Len(a_marker) + 2 ELSE MaxLength

\* the text "abab..." of c characters and its tokenization into one-character tokens
TextChars(c) == [k \in 1..c |-> IF k % 2 = 1 THEN "a" ELSE "b"]
Body(n) == [k \in 1..n |-> CharDigit(TextChars(n)[k])]

\* text.split() for every way of placing blanks in the text of c characters
WordLists(c) ==
    {[i \in 1..Len(split) |-> RunOf(TextChars(c), split, i)] :
        split \in UNION {Splits(c, m) : m \in 0..c}}

\* what the tokenizer may return for the text: its characters one by one, one
\* token short, one token long, or with an unknown token in front
Tokenizations(c) ==
    {Body(c), Body(c + 1), <<unk_token_id>> \o Body(c)} \cup (IF c > 0 THEN {Body(c - 1)} ELSE {})

\* rationale lists over the values vals, of the word list's length or one off
WordRationales(m, vals) ==
    [1..m -> vals] \cup (IF m > 0 THEN [1..(m - 1) -> vals] ELSE {}) \cup {Repeat(1, m + 1)}

\* token ids and token-level rationale as esnli, fever, movies and multirc
\* hand them to update_dataset_dict
UpdateInstances ==
    UNION {{[input_ids |-> Body(n), rationale |-> r, classification |-> cl] :
              r \in [1..n -> {0, 1}] \cup {Repeat(1, n + 1)}, cl \in {"c0", "c1"}} :
           n \in 0..(MaxLength - 1)}

\* the answer candidates of a cose question
AnswerLists == {<<<<2>>, <<2>>>>, <<<<2>>, <<2, 1>>>>}

CoseInstances ==
    UNION {{[question |-> Body(n), question_rationale |-> r, answer_ids |-> a, classification |-> cl] :
              r \in [1..n -> {0, 1}], a \in AnswerLists, cl \in {"c0", "c1"}} :
           n \in 0..(MaxLength - 1)}

\* an instance of sst_<split>.json with its tokenization; scores in tenths
SstInstances ==
    UNION {UNION {{[words |-> w, rationale |-> r, input_ids |-> t, classification |-> cl] :
                     r \in WordRationales(Len(w), {2, 7}), t \in Tokenizations(c), cl \in {"c0", "c1"}} :
                  w \in WordLists(c)} :
           c \in 0..(MaxLength - 2)}

\* a row of processed_<split>.json with its tokenization; the rows' texts have
\* no unknown token (the branch does not look for one)
HatexplainRows ==
    UNION {UNION {{[words |-> w, rationale |-> r, input_ids |-> t, label |-> l] :
                     r \in WordRationales(Len(w), {0, 1}) \cup {<<>>},
                     t \in Tokenizations(c) \ {<<unk_token_id>> \o Body(c)}, l \in {0, 1}} :
                  w \in WordLists(c)} :
           c \in 0..(MaxLength - 2)}

\* whether some entry of a list is positive
AnyPositive(r) == \E k \in 1..Len(r) : r[k] > 0

----------------------------------------------------------------------------
(* main: the loop over the examples and the save *)

Init ==
    /\ AlignerIdle
    /\ SamplerIdle
    /\ RunIdle
    /\ BranchIdle
    /\ dataset \in Datasets
    /\ num_special_tokens \in SpecialTokenCounts(dataset)
    /\ dataset_dict = EmptyDict
    /\ idx = 0
    /\ pc = "build"
    /\ error = "none"
    /\ rng = 0
    /\ actual_max_length = 0
    /\ attempt = NoAttempt
    /\ files = NoFiles

\* EndPass that skips an example whose pass raised and goes on with the next
EndPass_SkipExample(res, att) ==
    /\ dataset_dict' = res.dataset_dict
    /\ actual_max_length' = res.actual_max_length
    /\ rng' = res.rng
    /\ error' = "none"
    /\ pc' = "build"
    /\ idx' = idx + 1
    /\ attempt' = att
    /\ UNCHANGED <<dataset, num_special_tokens, files>>
    /\ UNCHANGED a_vars
    /\ UNCHANGED b_vars
    /\ UNCHANGED s_vars
    /\ UNCHANGED r_vars

\* the end of a pass of the loop: the next example, or the exception ends main
EndPass(res, att) ==
    /\ dataset_dict' = res.dataset_dict
    /\ actual_max_length' = res.actual_max_length
    /\ rng' = res.rng
    /\ error' = res.err
    /\ pc' = IF res.err = "none" THEN "build" ELSE "aborted"
    /\ idx' = IF res.err = "none" THEN idx + 1 ELSE idx
    /\ attempt' = att
    /\ UNCHANGED <<dataset, num_special_tokens, files>>
    /\ UNCHANGED a_vars
    /\ UNCHANGED b_vars
    /\ UNCHANGED s_vars
    /\ UNCHANGED r_vars

\* a pass of the esnli, fever, movies or multirc loop
BuildEraser ==
    /\ pc = "build"
    /\ dataset = "esnli"
    /\ idx < num_examples
    /\ \E inst \in UpdateInstances :
          EndPass(update_dataset_dict(idx, dataset_dict, inst.input_ids, inst.rationale, max_length,
                                      actual_max_length, rng, inst.classification),
                  [input_ids |-> inst.input_ids, positive |-> AnyPositive(inst.rationale)])

\* a pass of the cose loop
BuildCose ==
    /\ pc = "build"
    /\ dataset = "cose"
    /\ idx < num_examples
    /\ \E inst \in CoseInstances :
          EndPass(cose_build(idx, dataset_dict, inst, max_length, actual_max_length, rng),
                  [input_ids |-> inst.question, positive |-> AnyPositive(inst.question_rationale)])

\* a pass of the sst loop
BuildSst ==
    /\ pc = "build"
    /\ dataset = "sst"
    /\ idx < num_examples
    /\ \E inst \in SstInstances :
          EndPass(sst_build(idx, dataset_dict, inst, max_length, num_special_tokens, actual_max_length, rng),
                  [input_ids |-> inst.input_ids, positive |-> AnyPositive(Binarize(inst.rationale))])

\* a pass of the hatexplain loop
BuildHatexplain ==
    /\ pc = "build"
    /\ dataset = "hatexplain"
    /\ idx < num_examples
    /\ \E row \in HatexplainRows :
          EndPass(hatexplain_build(idx, dataset_dict, row, max_length, num_special_tokens,
                                   actual_max_length, rng),
                  [input_ids |-> row.input_ids, positive |-> AnyPositive(row.rationale)])

\* save_dataset(data_path, dataset_dict, ...) once the loop is through
SaveDataset ==
    /\ pc = "build"
    /\ idx = num_examples
    /\ files' = [written |-> TRUE, data |-> dataset_dict]
    /\ pc' = "saved"
    /\ UNCHANGED <<dataset, num_special_tokens, dataset_dict, idx, error, rng, actual_max_length, attempt>>
    /\ UNCHANGED a_vars
    /\ UNCHANGED b_vars
    /\ UNCHANGED s_vars
    /\ UNCHANGED r_vars

Next == BuildEraser \/ BuildCose \/ BuildSst \/ BuildHatexplain \/ SaveDataset

Spec == Init /\ [][Next]_vars

----------------------------------------------------------------------------
(* What it means for subword tokens to reconstruct a word list *)

IsWordChar(c) == c \in WordChars
\* the characters of a token that are not boundary markers
NonMarker(token) == SelectSeq(token, IsWordChar)
\* the non-marker characters of a list of tokens
Surface(tokens) == Flatten([k \in 1..Len(tokens) |-> NonMarker(tokens[k])])

\* the word whose run token k lies in
RunIndex(split, k) == CHOOSE i \in 1..Len(split) :
    SumSeq(SubSeq(split, 1, i - 1)) < k /\ k <= SumSeq(SubSeq(split, 1, i))

\* each word is the concatenation of the non-marker characters of its run
IsSplit(tokens, raw_tokens, split) ==
    \A i \in 1..Len(raw_tokens) : Surface(RunOf(tokens, split, i)) = raw_tokens[i]

\* the last token of every run ends with a character of the word, not a marker
EndsOnWord(tokens, split) ==
    \A i \in 1..Len(split) :
        LET run == RunOf(tokens, split, i)
            last == run[Len(run)]
        IN  last[Len(last)] \in WordChars

\* the token-level rationale a split stands for
Expand(split, raw_rationale) ==
    [k \in 1..SumSeq(split) |-> raw_rationale[RunIndex(split, k)]]

a_tokens == convert_ids_to_tokens(a_input_ids)
a_splits == Splits(Len(a_input_ids), Len(a_raw_tokens))
a_called == a_pc \in {"returned", "raised", "accepted", "rejected"}
a_normal == a_pc \in {"returned", "accepted", "rejected"}

\* the tokens reconstruct the word list
Reconstructs == \E split \in a_splits : IsSplit(a_tokens, a_raw_tokens, split)

\* some token holds the end of one word and the start of the next
Straddles ==
    \E k \in 1..Len(a_tokens), i \in 1..Len(a_raw_tokens) - 1 :
      \E p \in 0..Len(a_raw_tokens[i]) - 1, q \in 1..Len(a_raw_tokens[i + 1]) :
        /\ Surface(SubSeq(a_tokens, 1, k - 1))
             = Flatten(SubSeq(a_raw_tokens, 1, i - 1)) \o SubSeq(a_raw_tokens[i], 1, p)
        /\ NonMarker(a_tokens[k])
             = SubSeq(a_raw_tokens[i], p + 1, Len(a_raw_tokens[i])) \o SubSeq(a_raw_tokens[i + 1], 1, q)

----------------------------------------------------------------------------
(* C1 *)

\* C1 as stated: whenever the (non-empty) word list can be split into consecutive
\* runs of tokens whose non-marker characters spell the words, the call returns
\* the rationale of such a split, every token of the run of word i carrying
\* raw_rationale[i].
C1_AsStated ==
    (a_called /\ a_raw_tokens # <<>> /\ Reconstructs) =>
        /\ a_ret.err = "none"
        /\ \E split \in a_splits :
              /\ IsSplit(a_tokens, a_raw_tokens, split)
              /\ a_ret.rationale = Expand(split, a_raw_rationale)

\* C1, amended: for a non-empty word list and a split whose runs spell the words
\* and each end with the token holding the last character of the word as its last
\* character, the call returns normally and every token of the run of word i
\* carries exactly raw_rationale[i].
C1_RunsCarryWordRationale ==
    (a_called /\ a_raw_tokens # <<>>) =>
        \A split \in a_splits :
            (IsSplit(a_tokens, a_raw_tokens, split) /\ EndsOnWord(a_tokens, split)) =>
                /\ a_ret.err = "none"
                /\ a_ret.rationale = Expand(split, a_raw_rationale)

\* two words of different rationale, one of them rebuilt from two tokens
C1_Witness ==
    /\ a_pc = "accepted"
    /\ Len(a_raw_tokens) = 2 /\ a_raw_rationale = <<1, 0>>
    /\ \E split \in a_splits :
          /\ IsSplit(a_tokens, a_raw_tokens, split) /\ EndsOnWord(a_tokens, split)
          /\ split = <<1, 2>>
    /\ a_ret.rationale = <<1, 0, 0>>

----------------------------------------------------------------------------
(* C2 *)

\* C2 as stated, seen from the caller: tokens that do not reconstruct the word
\* list make the call raise, so no such call returns a rationale that passes the
\* caller's length check.
C2_MismatchRaises == a_pc = "accepted" => Reconstructs

----------------------------------------------------------------------------
(* C3 *)

\* C3 as stated: a normal return has one entry per subword token.
C3_AsStated == a_normal => Len(a_ret.rationale) = Len(a_input_ids)

\* C3, amended: a normal return has at most one entry per subword token (one per
\* token consumed up to the end of the last word), and the callers' assertion
\* lets through only the returns with exactly one entry per token.
C3_AtMostOnePerToken ==
    /\ a_normal => Len(a_ret.rationale) <= Len(a_input_ids)
    /\ a_pc = "accepted" => Len(a_ret.rationale) = Len(a_input_ids)
    /\ a_pc = "rejected" => Len(a_ret.rationale) < Len(a_input_ids)

\* a return with tokens left over after the last word, rejected by the caller
C3_Witness ==
    /\ a_pc = "rejected"
    /\ a_raw_tokens # <<>>
    /\ Len(a_ret.rationale) >= 1
    /\ Len(a_ret.rationale) < Len(a_input_ids)

----------------------------------------------------------------------------
(* C4 *)

\* C4: in a normal return every entry carries the rationale of the one word it
\* was appended for, the owning words of successive entries never decrease, every
\* word owns an entry; and a token holding the end of one word and the start of
\* the next never yields a normal return.
C4_OneWordPerToken ==
    /\ a_normal =>
        /\ Len(a_ret.owner) = Len(a_ret.rationale)
        /\ \A k \in 1..Len(a_ret.rationale) :
              /\ a_ret.owner[k] \in 1..Len(a_raw_tokens)
              /\ a_ret.rationale[k] = a_raw_rationale[a_ret.owner[k]]
        /\ \A k \in 1..Len(a_ret.owner) - 1 : a_ret.owner[k] <= a_ret.owner[k + 1]
        /\ \A i \in 1..Len(a_raw_tokens) : \E k \in 1..Len(a_ret.owner) : a_ret.owner[k] = i
    /\ (a_called /\ Straddles) => a_ret.err # "none"

\* a normal return for two words, the first rebuilt from two tokens
C4_Witness ==
    /\ a_pc = "accepted"
    /\ Len(a_raw_tokens) = 2
    /\ a_raw_rationale = <<0, 1>>
    /\ a_ret.owner = <<1, 1, 2>>

----------------------------------------------------------------------------
(* main, fever and movies branches: the window kept of a long document *)

\* number of subword ids of a document
MaxDocLen == 6
\* number of subword ids of a fever query
MaxQueryLen == 2

Min(a, b) == IF a <= b THEN a ELSE b
Max(a, b) == IF a >= b THEN a ELSE b

\* Python's x[:n]: the first n entries, and for n < 0 all but the last -n
SliceTo(x, n) == SubSeq(x, 1, IF n >= 0 THEN Min(n, Len(x)) ELSE Max(Len(x) + n, 0))

\* Python's x[-n:]: from the n-th entry from the end, from the start of the
\* list for n = 0 (-0 is 0), and for n < 0 from 0-based position -n
SliceFromMinus(x, n) ==
    LET start == IF n > 0 THEN Max(Len(x) - n, 0) ELSE Min(0 - n, Len(x))
    IN  SubSeq(x, start + 1, Len(x))

\* PrefixHasEvidence that finds evidence in every prefix
PrefixHasEvidence_Always(rationale, length) == TRUE

\* sum(rationale[:evidence_length]) > 0
PrefixHasEvidence(rationale, length) == SumSeq(SliceTo(rationale, length)) > 0

\* the length budget of the document
Budget(in) ==
    IF in.kind = "fever" THEN in.max_length - Len(in.query_ids) - in.num_special_tokens
    ELSE in.max_length - in.num_special_tokens

\* evidence_length = min(len(evidence_ids), budget) and the two slices
Truncate(ids, rationale, budget) ==
    LET length == Min(Len(ids), budget)
    IN  IF PrefixHasEvidence(rationale, length)
        THEN [kind |-> "prefix", length |-> length,
              ids |-> SliceTo(ids, length), rationale |-> SliceTo(rationale, length)]
        ELSE [kind |-> "suffix", length |-> length,
              ids |-> SliceFromMinus(ids, length), rationale |-> SliceFromMinus(rationale, length)]

\* a document of n subword ids, all different, and a query of q
DocIds(n) == [k \in 1..n |-> 10 + k]
QueryIds(q) == [k \in 1..q |-> 20 + k]

\* an instance of fever or movies with its configuration
TruncInputs ==
    UNION {{[kind |-> k, ids |-> DocIds(n), rationale |-> r, query_ids |-> QueryIds(q),
             max_length |-> ml, num_special_tokens |-> nst, classification |-> "c0"] :
              r \in [1..n -> {0, 1}], ml \in 2..(MaxDocLen + 1), nst \in {2, 3},
              q \in IF k = "fever" THEN 0..MaxQueryLen ELSE {0}} :
           <<k, n>> \in {"fever", "movies"} \X (0..MaxDocLen)}

TruncInit ==
    /\ BuilderIdle
    /\ AlignerIdle
    /\ SamplerIdle
    /\ RunIdle
    /\ b_pc = "start"
    /\ b_in \in TruncInputs
    /\ b_mid = Nothing
    /\ b_out = Nothing

\* the cut of the document and of its rationale
CutWindow ==
    /\ b_pc = "start"
    /\ b_in.kind \in {"fever", "movies"}
    /\ b_mid' = Truncate(b_in.ids, b_in.rationale, Budget(b_in))
    /\ b_pc' = "prepared"
    /\ UNCHANGED <<b_in, b_out>>
    /\ UNCHANGED m_vars
    /\ UNCHANGED a_vars
    /\ UNCHANGED s_vars
    /\ UNCHANGED r_vars

\* fever adds the separator and the query; then update_dataset_dict
StoreWindow ==
    /\ b_pc = "prepared"
    /\ b_in.kind \in {"fever", "movies"}
    /\ LET input_ids == IF b_in.kind = "fever"
                        THEN b_mid.ids \o <<sep_token_id>> \o b_in.query_ids
                        ELSE b_mid.ids
           rationale == IF b_in.kind = "fever"
                        THEN b_mid.rationale \o Repeat(0, Len(b_in.query_ids) + 1)
                        ELSE b_mid.rationale
       IN  b_out' = update_dataset_dict(0, EmptyDict, input_ids, rationale, b_in.max_length, 0, 0,
                                        b_in.classification)
    /\ b_pc' = IF b_out'.err = "none" THEN "stored" ELSE "raised"
    /\ UNCHANGED <<b_in, b_mid>>
    /\ UNCHANGED m_vars
    /\ UNCHANGED a_vars
    /\ UNCHANGED s_vars
    /\ UNCHANGED r_vars

TruncNext == CutWindow \/ StoreWindow

SpecTrunc == TruncInit /\ [][TruncNext]_vars

----------------------------------------------------------------------------
(* main, sst and hatexplain branches: one pass of the loop on its own *)

\* an instance of sst or a row of hatexplain with the dataset's configuration
PassInputs ==
    {[kind |-> "sst", inst |-> i, num_special_tokens |-> nst] :
        i \in SstInstances, nst \in SpecialTokenCounts("sst")}
    \cup {[kind |-> "hatexplain", inst |-> i, num_special_tokens |-> nst] :
            i \in HatexplainRows, nst \in SpecialTokenCounts("hatexplain")}

\* the word-level rationale the branch starts from (lines 457 and 732-737)
RawRationaleOf(in) ==
    IF in.kind = "sst" THEN Binarize(in.inst.rationale)
    ELSE IF Len(in.inst.rationale) = 0 THEN Repeat(0, Len(in.inst.words))
    ELSE in.inst.rationale

PassInit ==
    /\ BuilderIdle
    /\ AlignerIdle
    /\ SamplerIdle
    /\ RunIdle
    /\ b_pc = "start"
    /\ b_in \in PassInputs
    /\ b_mid = Nothing
    /\ b_out = Nothing

\* the length rule and the aligner
AlignPass ==
    /\ b_pc = "start"
    /\ b_in.kind \in {"sst", "hatexplain"}
    /\ b_mid' = AlignWords(b_in.inst.words, RawRationaleOf(b_in), b_in.inst.input_ids, MaxLength)
    /\ b_pc' = IF b_mid'.err = "none" THEN "prepared" ELSE "raised"
    /\ UNCHANGED <<b_in, b_out>>
    /\ UNCHANGED m_vars
    /\ UNCHANGED a_vars
    /\ UNCHANGED s_vars
    /\ UNCHANGED r_vars

\* the rest of the pass: markers, padding, the assertions and the appends
StorePass ==
    /\ b_pc = "prepared"
    /\ b_in.kind \in {"sst", "hatexplain"}
    /\ b_out' = IF b_in.kind = "sst"
                THEN sst_build(0, EmptyDict, b_in.inst, MaxLength, b_in.num_special_tokens, 0, 0)
                ELSE hatexplain_build(0, EmptyDict, b_in.inst, MaxLength, b_in.num_special_tokens, 0, 0)
    /\ b_pc' = IF b_out'.err = "none" THEN "stored" ELSE "raised"
    /\ UNCHANGED <<b_in, b_mid>>
    /\ UNCHANGED m_vars
    /\ UNCHANGED a_vars
    /\ UNCHANGED s_vars
    /\ UNCHANGED r_vars

PassNext == AlignPass \/ StorePass

SpecPass == PassInit /\ [][PassNext]_vars

----------------------------------------------------------------------------
(* main, branches that take the padded ids from the tokenizer: sst2, stf,  *)
(* emnli                                                                   *)

\* tokenizer(text, padding='max_length', max_length=max_length, truncation=True)
\* for a text of subword ids body: the ids that fit between the two markers,
\* the markers, the padding, and the mask
TokenizePadded(body, ml) ==
    LET kept == SliceTo(body, ml - 2)
        num_pad_tokens == ml - Len(kept) - 2
    IN  [input_ids |-> <<cls_token_id>> \o kept \o <<sep_token_id>> \o Repeat(pad_token_id, num_pad_tokens),
         attention_mask |-> Repeat(1, Len(kept) + 2) \o Repeat(0, num_pad_tokens)]

\* x.index(v): the 0-based position of the first v in x
IndexOf(x, v) == (CHOOSE k \in 1..Len(x) : x[k] = v /\ \A j \in 1..(k - 1) : x[j] # v) - 1

\* a text of sst2 or stf: its subword ids and its label
PlainInstances == {[input_ids |-> Body(n), label |-> l] : n \in 0..MaxLength, l \in {0, 1}}

\* an example of emnli.pkl: premise and hypothesis with a rationale entry
\* per subword id, and the label
EmnliInstances ==
    UNION {{[premise |-> Body(p), hypothesis |-> Body(h), premise_rationale |-> r,
             hypothesis_rationale |-> Repeat(1, h), label |-> l] :
              r \in [1..p -> {0, 1}], l \in {0, 1}} :
           <<p, h>> \in (0..(MaxLength - 3)) \X (0..(MaxLength - 3))}

\* rationale.append([0] + premise_rationale + [0] + hypothesis_rationale + [0] + [0] * num_pad_tokens)
\* with num_tokens = text['input_ids'].index(tokenizer.sep_token_id)
EmnliRationale(inst, input_ids, ml) ==
    LET num_tokens == IndexOf(input_ids, sep_token_id)
        num_pad_tokens == ml - num_tokens
    IN  <<0>> \o inst.premise_rationale \o <<0>> \o inst.hypothesis_rationale \o <<0>>
            \o Repeat(0, num_pad_tokens)

\* the datasets of these branches
PlainDatasets == {"sst2", "stf", "emnli"}

PlainInit ==
    /\ AlignerIdle
    /\ SamplerIdle
    /\ RunIdle
    /\ BranchIdle
    /\ dataset \in PlainDatasets
    /\ num_special_tokens = 2
    /\ dataset_dict = EmptyDict
    /\ idx = 0
    /\ pc = "build"
    /\ error = "none"
    /\ rng = 0
    /\ actual_max_length = 0
    /\ attempt = NoAttempt
    /\ files = NoFiles

\* a pass of the sst2 loop: four appends
BuildSst2 ==
    /\ pc = "build"
    /\ dataset = "sst2"
    /\ idx < num_examples
    /\ \E inst \in PlainInstances :
          LET text == TokenizePadded(inst.input_ids, max_length)
          IN  EndPass(Built([dataset_dict EXCEPT !.item_idx = Append(@, idx),
                                                 !.input_ids = Append(@, text.input_ids),
                                                 !.attention_mask = Append(@, text.attention_mask),
                                                 !.label = Append(@, inst.label)],
                            actual_max_length, rng),
                      [input_ids |-> inst.input_ids, positive |-> FALSE])

\* a pass of the stf loop: six appends, the rationale is None
BuildStf ==
    /\ pc = "build"
    /\ dataset = "stf"
    /\ idx < num_examples
    /\ \E inst \in PlainInstances :
          LET tokens == TokenizePadded(inst.input_ids, max_length)
              num_tokens == Len(inst.input_ids) + num_special_tokens
          IN  EndPass(Built([dataset_dict EXCEPT !.item_idx = Append(@, idx),
                                                 !.input_ids = Append(@, tokens.input_ids),
                                                 !.attention_mask = Append(@, tokens.attention_mask),
                                                 !.rationale = Append(@, "None"),
                                                 !.has_rationale = Append(@, 0),
                                                 !.label = Append(@, inst.label)],
                            Max(num_tokens, actual_max_length), rng),
                      [input_ids |-> inst.input_ids, positive |-> FALSE])

\* a pass of the emnli loop: six appends, the rationale put together by hand
BuildEmnli ==
    /\ pc = "build"
    /\ dataset = "emnli"
    /\ idx < num_examples
    /\ \E inst \in EmnliInstances :
          LET body == inst.premise \o <<sep_token_id>> \o inst.hypothesis
              text == TokenizePadded(body, max_length)
          IN  EndPass(Built([dataset_dict EXCEPT !.item_idx = Append(@, idx),
                                                 !.input_ids = Append(@, text.input_ids),
                                                 !.attention_mask = Append(@, text.attention_mask),
                                                 !.label = Append(@, inst.label),
                                                 !.rationale = Append(@, EmnliRationale(inst, text.input_ids,
                                                                                        max_length)),
                                                 !.has_rationale = Append(@, 1)],
                            actual_max_length, rng),
                      [input_ids |-> body, positive |-> AnyPositive(inst.premise_rationale)])

PlainNext == BuildSst2 \/ BuildStf \/ BuildEmnli \/ SaveDataset

SpecPlain == PlainInit /\ [][PlainNext]_vars

----------------------------------------------------------------------------
(* The stored examples, row by row *)

\* the number of examples stored so far
NumStored == Len(dataset_dict.item_idx)

\* the rows stored: one per example, and on cose one per example and answer candidate
StoredRows ==
    IF dataset = "cose"
    THEN UNION {{[input_ids |-> dataset_dict.input_ids[k][j],
                  attention_mask |-> dataset_dict.attention_mask[k][j],
                  rationale |-> dataset_dict.rationale[k][j],
                  inv_rationale |-> dataset_dict.inv_rationale[k][j],
                  has_rationale |-> dataset_dict.has_rationale[k][j]] :
                    j \in 1..Len(dataset_dict.input_ids[k])} : k \in 1..NumStored}
    ELSE {[input_ids |-> dataset_dict.input_ids[k],
           attention_mask |-> dataset_dict.attention_mask[k],
           rationale |-> dataset_dict.rationale[k],
           inv_rationale |-> dataset_dict.inv_rationale[k],
           has_rationale |-> dataset_dict.has_rationale[k]] : k \in 1..NumStored}

\* the positions of a row that hold no pad id
RealPositions(row) == {i \in 1..Len(row.input_ids) : row.input_ids[i] # pad_token_id}
\* the last of them: the position of the end marker
LastReal(row) == CHOOSE i \in RealPositions(row) : \A k \in RealPositions(row) : k <= i

\* the last pass of the loop stored its example
LastPassStored == pc = "build" /\ idx > 0

----------------------------------------------------------------------------
(* C5 *)

\* C5: on the update_dataset_dict path and on the sst and hatexplain branches
\* every stored example has input_ids, attention_mask, rationale and
\* inv_rationale of length max_length each.
C5_FieldsHaveMaxLength ==
    dataset \in {"esnli", "sst", "hatexplain"} =>
        \A row \in StoredRows :
            /\ Len(row.input_ids) = max_length
            /\ Len(row.attention_mask) = max_length
            /\ Len(row.rationale) = max_length
            /\ Len(row.inv_rationale) = max_length

\* two examples stored on the update_dataset_dict path, one padded and one
\* that fills max_length
C5_Witness ==
    /\ dataset = "esnli"
    /\ NumStored = 2
    /\ dataset_dict.attention_mask[1][max_length] = 0
    /\ dataset_dict.attention_mask[2][max_length] = 1
    /\ Len(dataset_dict.inv_rationale[2]) = max_length

----------------------------------------------------------------------------
(* C6 *)

----------------------------------------------------------------------------
(* C7 *)

\* C7: on the update_dataset_dict path and the sst and hatexplain branches,
\* the example stored for a body of n subword ids with n + 2 <= max_length
\* has input_ids [CLS] + body + [SEP] followed by max_length - n - 2 pad
\* ids, and its attention_mask is 1 at the first n + 2 positions and 0 at
\* every later one.
C7_MarkersPaddingAndMask ==
    (/\ dataset \in {"esnli", "sst", "hatexplain"}
     /\ LastPassStored
     /\ Len(attempt.input_ids) + 2 <= max_length) =>
        LET body == attempt.input_ids
            n == Len(body)
            mask == dataset_dict.attention_mask[idx]
        IN  /\ dataset_dict.input_ids[idx] =
                  <<cls_token_id>> \o body \o <<sep_token_id>> \o Repeat(pad_token_id, max_length - n - 2)
            /\ DOMAIN mask = 1..max_length
            /\ \A i \in 1..max_length : mask[i] = (IF i <= n + 2 THEN 1 ELSE 0)

\* an sst example of one subword is stored, with padding behind the end marker
C7_Witness ==
    /\ dataset = "sst"
    /\ LastPassStored
    /\ attempt.input_ids = <<1>>
    /\ dataset_dict.input_ids[idx][3] = sep_token_id
    /\ dataset_dict.input_ids[idx][max_length] = pad_token_id
    /\ dataset_dict.attention_mask[idx][3] = 1
    /\ dataset_dict.attention_mask[idx][max_length] = 0

----------------------------------------------------------------------------
(* C8 *)

----------------------------------------------------------------------------
(* C9 *)

\* C9: on the update_dataset_dict path and on cose, an example whose
\* rationale has no positive entry makes the builder raise an error (the
\* pass never stores it), and a pass that raises leaves dataset_dict as it
\* was before the pass.
C9_EmptyRationaleRejected ==
    /\ [](dataset \in {"esnli", "cose"} =>
            /\ LastPassStored => attempt.positive
            /\ pc = "aborted" => error # "none")
    /\ [][(dataset \in {"esnli", "cose"} /\ pc' = "aborted") => dataset_dict' = dataset_dict]_vars

\* the second example of a cose split has an all-zero rationale: ValueError,
\* and the dictionary still holds the first example only
C9_Witness ==
    /\ dataset = "cose"
    /\ pc = "aborted"
    /\ error = "ValueError"
    /\ ~attempt.positive
    /\ idx = 1
    /\ NumStored = 1
    /\ Len(dataset_dict.has_rationale) = 1

----------------------------------------------------------------------------
(* C10 *)

\* C10: for every stored row of a branch that builds a rationale, the stored
\* has_rationale flag is 1 if and only if some entry of the stored rationale
\* is greater than 0.
C10_FlagIffPositiveEntry ==
    \A row \in StoredRows :
        row.has_rationale = 1 <=> (\E i \in 1..Len(row.rationale) : row.rationale[i] > 0)

----------------------------------------------------------------------------
(* The windows of a document *)

\* the first and the last n entries of a list, 0 <= n <= Len(x)
PrefixOf(x, n) == SubSeq(x, 1, n)
SuffixOf(x, n) == SubSeq(x, Len(x) - n + 1, Len(x))

\* the document was cut
b_cut == b_pc \in {"prepared", "stored", "raised"}
\* L = min(document length, length budget)
b_L == Min(Len(b_in.ids), Budget(b_in))
\* 1-based position k of a document of n entries lies in its last third
InLastThird(k, n) == 3 * (k - 1) >= 2 * n
\* every positive entry of the document's rationale lies in its last third
EvidenceInLastThird ==
    \A k \in 1..Len(b_in.rationale) : b_in.rationale[k] > 0 => InLastThird(k, Len(b_in.rationale))

----------------------------------------------------------------------------
(* C11 *)

\* C11: on fever and movies, with L = min(document length, budget) for a
\* budget >= 0: the prefix of length L is kept if it has a positive
\* rationale entry, otherwise the suffix of length L; if either window has a
\* positive entry so has the kept one; ids and rationale are cut alike.
C11_PrefixElseSuffix ==
    (b_cut /\ Budget(b_in) >= 0) =>
        /\ AnyPositive(PrefixOf(b_in.rationale, b_L)) =>
              /\ b_mid.ids = PrefixOf(b_in.ids, b_L)
              /\ b_mid.rationale = PrefixOf(b_in.rationale, b_L)
        /\ ~AnyPositive(PrefixOf(b_in.rationale, b_L)) =>
              /\ b_mid.ids = SuffixOf(b_in.ids, b_L)
              /\ b_mid.rationale = SuffixOf(b_in.rationale, b_L)
        /\ (AnyPositive(PrefixOf(b_in.rationale, b_L)) \/ AnyPositive(SuffixOf(b_in.rationale, b_L)))
              => AnyPositive(b_mid.rationale)
        /\ \E lo \in 1..(Len(b_in.ids) + 1) : \E hi \in 0..Len(b_in.ids) :
              /\ b_mid.ids = SubSeq(b_in.ids, lo, hi)
              /\ b_mid.rationale = SubSeq(b_in.rationale, lo, hi)

\* the same with a budget of at least one subword id
PrefixElseSuffix_WithRoomForOneToken ==
    (b_cut /\ Budget(b_in) >= 1) =>
        /\ AnyPositive(PrefixOf(b_in.rationale, b_L)) =>
              /\ b_mid.ids = PrefixOf(b_in.ids, b_L)
              /\ b_mid.rationale = PrefixOf(b_in.rationale, b_L)
        /\ ~AnyPositive(PrefixOf(b_in.rationale, b_L)) =>
              /\ b_mid.ids = SuffixOf(b_in.ids, b_L)
              /\ b_mid.rationale = SuffixOf(b_in.rationale, b_L)
        /\ (AnyPositive(PrefixOf(b_in.rationale, b_L)) \/ AnyPositive(SuffixOf(b_in.rationale, b_L)))
              => AnyPositive(b_mid.rationale)

----------------------------------------------------------------------------
(* C12 *)

\* C12 as stated: a document longer than the budget (of at least one id)
\* whose positive rationale entries all lie in its last third keeps its last
\* L ids, not its first L.
C12_AsStated ==
    (b_cut /\ Budget(b_in) >= 1 /\ Len(b_in.ids) > Budget(b_in) /\ EvidenceInLastThird) =>
        /\ b_mid.kind = "suffix"
        /\ b_mid.ids = SuffixOf(b_in.ids, b_L)

\* C12: a document longer than the budget (of at least one id) keeps its
\* last L ids, with their rationale, when no positive rationale entry lies
\* among its first L; that is so when the positive entries all lie in the
\* last third and L is at most two thirds of the document.
C12_SuffixWhenPrefixHasNoEvidence ==
    (b_cut /\ Budget(b_in) >= 1 /\ Len(b_in.ids) > Budget(b_in)) =>
        /\ ~AnyPositive(PrefixOf(b_in.rationale, b_L)) =>
              /\ b_mid.kind = "suffix"
              /\ b_mid.ids = SuffixOf(b_in.ids, b_L)
              /\ b_mid.rationale = SuffixOf(b_in.rationale, b_L)
              /\ b_mid.ids[1] # b_in.ids[1]
        /\ (EvidenceInLastThird /\ 3 * b_L <= 2 * Len(b_in.ids)) =>
              ~AnyPositive(PrefixOf(b_in.rationale, b_L))

\* a document of six ids with evidence at its last two is cut to its last four
C12_Witness ==
    /\ b_cut
    /\ b_in.rationale = <<0, 0, 0, 0, 1, 1>>
    /\ Budget(b_in) = 4
    /\ b_mid.kind = "suffix"
    /\ b_mid.ids = <<13, 14, 15, 16>>
    /\ b_mid.rationale = <<0, 0, 1, 1>>

----------------------------------------------------------------------------
(* C19 *)

\* C19: on fever and movies, for every document and every budget >= 0 the
\* kept ids and the kept rationale both have length L = min(document
\* length, budget), also when L = 0 and the document is not empty; a stored
\* example is then no longer than max_length.
C19_WindowHasLengthL ==
    (b_cut /\ Budget(b_in) >= 0) =>
        /\ Len(b_mid.ids) = b_L
        /\ Len(b_mid.rationale) = b_L
        /\ b_pc = "stored" => Len(b_out.dataset_dict.input_ids[1]) <= b_in.max_length

----------------------------------------------------------------------------
(* C13 *)

\* C13: save_dataset is reached only after every example of the split was
\* built without error; a pass that raises ends the run: no field file is
\* written, the examples accumulated so far are not saved, and no later
\* example is processed.
C13_FailFast ==
    /\ [](files.written => /\ pc = "saved"
                           /\ error = "none"
                           /\ idx = num_examples
                           /\ NumStored = num_examples
                           /\ files.data = dataset_dict)
    /\ [](pc = "aborted" => /\ error # "none"
                            /\ ~files.written
                            /\ idx < num_examples
                            /\ NumStored = idx)
    /\ [][pc # "aborted"]_vars

\* the aligner fails on the second sst example: one example accumulated,
\* nothing written
C13_Witness ==
    /\ dataset = "sst"
    /\ pc = "aborted"
    /\ error = "TypeError"
    /\ idx = 1
    /\ NumStored = 1
    /\ ~files.written

----------------------------------------------------------------------------
(* C14 *)

\* the examples a pass of the dataset's loop may be given
Instances ==
    CASE dataset = "esnli" -> UpdateInstances
      [] dataset = "cose" -> CoseInstances
      [] dataset = "sst" -> SstInstances
      [] dataset = "hatexplain" -> HatexplainRows
      [] OTHER -> {}

\* the pass of the dataset's loop for example inst as the i-th, with the
\* dictionary dd, actual_max_length amax and the generator in state r
BuildIn(inst, i, dd, amax, r) ==
    CASE dataset = "esnli" -> update_dataset_dict(i, dd, inst.input_ids, inst.rationale, max_length,
                                                  amax, r, inst.classification)
      [] dataset = "cose" -> cose_build(i, dd, inst, max_length, amax, r)
      [] dataset = "sst" -> sst_build(i, dd, inst, max_length, num_special_tokens, amax, r)
      [] dataset = "hatexplain" -> hatexplain_build(i, dd, inst, max_length, num_special_tokens, amax, r)

\* the six fields of the k-th stored example that do not come from the generator
SixFields(dd, k) ==
    <<dd.input_ids[k], dd.attention_mask[k], dd.rationale[k], dd.inv_rationale[k],
      dd.has_rationale[k], dd.label[k]>>

\* C14: on the update_dataset_dict path and the sst and hatexplain branches,
\* a pass for an example in the state main has reached (examples stored
\* before, generator advanced) ends like a pass for the same example in a
\* fresh run: the same exception or none, and the same input_ids,
\* attention_mask, rationale, inv_rationale, has_rationale and label.
C14_BuilderIsDeterministic ==
    (dataset \in {"esnli", "sst", "hatexplain"} /\ pc = "build" /\ idx < num_examples) =>
        \A inst \in Instances :
            LET here == BuildIn(inst, idx, dataset_dict, actual_max_length, rng)
                fresh == BuildIn(inst, 0, EmptyDict, 0, 0)
            IN  /\ here.err = fresh.err
                /\ here.err = "none" =>
                      SixFields(here.dataset_dict, idx + 1) = SixFields(fresh.dataset_dict, 1)

\* the same sst example was built twice: the random rationales differ, the
\* six fields do not
C14_Witness ==
    /\ dataset = "sst"
    /\ NumStored = 2
    /\ dataset_dict.rationale[1] = <<0, 1, 0, 0>>
    /\ SixFields(dataset_dict, 1) = SixFields(dataset_dict, 2)
    /\ dataset_dict.rand_rationale[1] # dataset_dict.rand_rationale[2]

----------------------------------------------------------------------------
(* C15 *)

\* the length rule and the aligner have run
b_aligned == b_pc \in {"prepared", "stored", "raised"} /\ b_in.kind \in {"sst", "hatexplain"}

\* C15: on sst and hatexplain, a word-level rationale with more entries than
\* words ends the pass with an AssertionError; one that is one entry short
\* is extended with 0 for the final word, the other entries keeping their
\* positions and values: the subword tokens of the final word get rationale
\* 0 and those of every other word the entry of their word.
C15_LengthRule ==
    b_aligned =>
        LET words == b_in.inst.words
            raw == RawRationaleOf(b_in)
        IN  /\ Len(raw) > Len(words) => (b_pc = "raised" /\ b_mid.err = "AssertionError")
            /\ (Len(raw) = Len(words) - 1 /\ b_mid.err = "none") =>
                  /\ Len(b_mid.rationale) = Len(b_in.inst.input_ids)
                  /\ \A j \in 1..Len(b_mid.rationale) :
                        b_mid.rationale[j] = (IF b_mid.owner[j] = Len(words) THEN 0
                                              ELSE raw[b_mid.owner[j]])
                  /\ \E j \in 1..Len(b_mid.rationale) : b_mid.owner[j] = Len(words)

\* an sst instance of two words with one score is stored; the first word is
\* in the rationale, the final word is not
C15_Witness ==
    /\ b_pc = "stored"
    /\ b_in.kind = "sst"
    /\ Len(b_in.inst.words) = 2
    /\ b_in.inst.rationale = <<7>>
    /\ b_mid.rationale = <<1, 0>>
    /\ b_out.dataset_dict.rationale[1] = <<0, 1, 0, 0>>

----------------------------------------------------------------------------
(* C16 *)

----------------------------------------------------------------------------
(* C18 *)

\* C18: on sst and hatexplain an example whose aligned rationale has no
\* positive entry is rejected with an error and not appended: every stored
\* example has a positive rationale entry.
C18_NoEmptyRationaleStored ==
    dataset \in {"sst", "hatexplain"} => \A row \in StoredRows : AnyPositive(row.rationale)

----------------------------------------------------------------------------
(* C17 *)

\* C17: after any number of built examples, in every dataset branch, each of
\* the eight fields has one entry per built example.
C17_EightFieldsAligned ==
    LET n == Len(dataset_dict.item_idx)
    IN  /\ n = idx
        /\ Len(dataset_dict.input_ids) = n
        /\ Len(dataset_dict.attention_mask) = n
        /\ Len(dataset_dict.rationale) = n
        /\ Len(dataset_dict.inv_rationale) = n
        /\ Len(dataset_dict.rand_rationale) = n
        /\ Len(dataset_dict.has_rationale) = n
        /\ Len(dataset_dict.label) = n

----------------------------------------------------------------------------
(* C20 *)

\* C20: on emnli the stored rationale of every built example is as long as
\* its stored input_ids, which is max_length.
C20_EmnliRationaleHasMaxLength ==
    dataset = "emnli" =>
        \A k \in 1..Len(dataset_dict.item_idx) :
            /\ Len(dataset_dict.input_ids[k]) = max_length
            /\ Len(dataset_dict.rationale[k]) = Len(dataset_dict.input_ids[k])

----------------------------------------------------------------------------
(* main, cose branch: one pass of the loop on its own *)

\* dataset_info['cose']['max_length'][args.arch]: room for the three markers,
\* the Q: and A: ids and MaxLength + 1 ids of question and answer
CoseMaxLength == MaxLength + Len(q_marker) + Len(a_marker) + 4

\* the dataset_dict the pass starts from: empty, or holding one example
CoseBefore ==
    {EmptyDict,
     cose_build(0, EmptyDict,
                [question |-> Body(1), question_rationale |-> <<1>>, answer_ids |-> <<<<2>>, <<1>>>>,
                 classification |-> "c0"],
                CoseMaxLength, 0, 0).dataset_dict}

\* a cose instance: the question's ids, its rationale (of the question's
\* length, or one entry longer), two or three answer candidates
CosePassInputs ==
    UNION {{[kind |-> "cose", dataset_dict |-> dd,
             inst |-> [question |-> Body(n), question_rationale |-> r, answer_ids |-> a,
                       classification |-> "c1"]] :
              r \in [1..n -> {0, 1}] \cup {Repeat(1, n + 1)},
              a \in AnswerLists \cup {<<<<2>>, <<1>>, <<2, 1>>>>},
              dd \in CoseBefore} :
           n \in 0..(MaxLength - 1)}

CoseInit ==
    /\ BuilderIdle
    /\ AlignerIdle
    /\ SamplerIdle
    /\ RunIdle
    /\ b_pc = "start"
    /\ b_in \in CosePassInputs
    /\ b_mid = Nothing
    /\ b_out = Nothing

\* the loop over the answer candidates (lines 289-318)
CoseCandidates ==
    /\ b_pc = "start"
    /\ b_in.kind = "cose"
    /\ b_mid' = CoseRows(b_in.inst.answer_ids, b_in.inst.question, b_in.inst.question_rationale,
                         CoseMaxLength, 0, 0, NoRows)
    /\ b_pc' = IF b_mid'.err = "none" THEN "prepared" ELSE "raised"
    /\ UNCHANGED <<b_in, b_out>>
    /\ UNCHANGED m_vars
    /\ UNCHANGED a_vars
    /\ UNCHANGED s_vars
    /\ UNCHANGED r_vars

\* the appends to dataset_dict (lines 320-329)
CoseAppend ==
    /\ b_pc = "prepared"
    /\ b_in.kind = "cose"
    /\ b_out' = cose_build(Len(b_in.dataset_dict.item_idx), b_in.dataset_dict, b_in.inst, CoseMaxLength, 0, 0)
    /\ b_pc' = IF b_out'.err = "none" THEN "stored" ELSE "raised"
    /\ UNCHANGED <<b_in, b_mid>>
    /\ UNCHANGED m_vars
    /\ UNCHANGED a_vars
    /\ UNCHANGED s_vars
    /\ UNCHANGED r_vars

CoseNext == CoseCandidates \/ CoseAppend

SpecCose == CoseInit /\ [][CoseNext]_vars

----------------------------------------------------------------------------
(* C21 *)

\* the fields that hold one row per answer candidate, and those of them whose
\* rows are lists over the token positions
CandidateFields ==
    {"input_ids", "attention_mask", "rationale", "inv_rationale", "rand_rationale", "has_rationale"}
PositionFields == CandidateFields \ {"has_rationale"}

\* the positions of the question in a cose row
QuestionSpan(inst) == (1 + Len(q_marker) + 1)..(1 + Len(q_marker) + Len(inst.question))

\* C21: a cose pass that stores its instance appends to each of input_ids,
\* attention_mask, rationale, inv_rationale, rand_rationale and has_rationale
\* one entry holding one row per answer candidate; every row over the token
\* positions has length max_length; every rationale row carries the question's
\* rationale on the question span and 0 everywhere else (markers, Q: and A:
\* ids, answer, padding); item_idx and label gain one entry each.
C21_OneRowPerCandidate ==
    (b_pc = "stored" /\ b_in.kind = "cose") =>
        LET before == b_in.dataset_dict
            dd == b_out.dataset_dict
            inst == b_in.inst
            k == Len(before.item_idx) + 1
        IN  /\ \A f \in CandidateFields :
                  /\ Len(dd[f]) = Len(before[f]) + 1
                  /\ SliceTo(dd[f], k - 1) = before[f]
                  /\ Len(dd[f][k]) = Len(inst.answer_ids)
            /\ \A f \in PositionFields : \A j \in 1..Len(inst.answer_ids) : Len(dd[f][k][j]) = CoseMaxLength
            /\ \A j \in 1..Len(inst.answer_ids) : \A p \in 1..CoseMaxLength :
                  dd.rationale[k][j][p] =
                      IF p \in QuestionSpan(inst)
                      THEN inst.question_rationale[p - 1 - Len(q_marker)]
                      ELSE 0
            /\ dd.item_idx = Append(before.item_idx, k - 1)
            /\ Len(dd.label) = Len(before.label) + 1
            /\ SliceTo(dd.label, k - 1) = before.label

\* a stored instance after an earlier one, with two candidates of different
\* lengths, a question whose rationale has a 0 and a 1, and padding in a row
C21_Witness ==
    /\ b_pc = "stored"
    /\ b_in.kind = "cose"
    /\ Len(b_in.dataset_dict.item_idx) = 1
    /\ b_in.inst.answer_ids = <<<<2>>, <<2, 1>>>>
    /\ b_in.inst.question_rationale = <<0, 1>>
    /\ Len(b_out.dataset_dict.rationale) = 2
    /\ b_out.dataset_dict.input_ids[2][1][CoseMaxLength] = pad_token_id

----------------------------------------------------------------------------
(* stratified_sampling and sample_dataset *)

\* the largest split that is sub-sampled
MaxSplit == 4

\* the labels that occur in a split
SplitLabels == {0, 1, 2}

RECURSIVE CounterKeys(_, _)
\* the keys of Counter(labels): the labels in the order of their first occurrence
CounterKeys(labels, seen) ==
    IF labels = <<>> THEN <<>>
    ELSE IF Head(labels) \in seen THEN CounterKeys(Tail(labels), seen)
    ELSE <<Head(labels)>> \o CounterKeys(Tail(labels), seen \cup {Head(labels)})

\* how often a label occurs in a list of labels
CountOf(labels, c) == Cardinality({k \in 1..Len(labels) : labels[k] = c})

\* label_counts = list(Counter(dataset_dict['label']).values())
label_counts(labels) ==
    LET keys == CounterKeys(labels, {})
    IN  [i \in 1..Len(keys) |-> CountOf(labels, keys[i])]

\* n_strat_samples = [int(i * n_samples / n_total) for i in stratify]
n_strat_samples(stratify, n_samples, n_total) ==
    [i \in 1..Len(stratify) |-> (stratify[i] * n_samples) \div n_total]

\* cum_n_samples = np.cumsum([0] + list(stratify))
cum_n_samples(stratify) == [i \in 1..(Len(stratify) + 1) |-> SumSeq(SubSeq(stratify, 1, i - 1))]

\* np.random.choice(range(lo, hi), replace=False, size=k): k different numbers
\* of the range in any order
Choice(lo, hi, k) ==
    {c \in [1..k -> lo..(hi - 1)] : \A a, b \in 1..k : a # b => c[a] # c[b]}

\* [dataset_dict[key][i] for i in sampled_split]
Select(field, sampled_split) == [j \in 1..Len(sampled_split) |-> field[sampled_split[j] + 1]]

\* a full split as load_dataset returns it: example k (0-based) has the id 10 + k
SplitDict(labels) ==
    LET n == Len(labels)
    IN  [item_idx |-> [k \in 1..n |-> k - 1],
         input_ids |-> [k \in 1..n |-> <<cls_token_id, 9 + k, sep_token_id>>],
         attention_mask |-> [k \in 1..n |-> <<1, 1, 1>>],
         rationale |-> [k \in 1..n |-> <<0, 1, 0>>],
         inv_rationale |-> [k \in 1..n |-> <<1, 0, 1>>],
         rand_rationale |-> [k \in 1..n |-> <<0, 0, 0>>],
         has_rationale |-> [k \in 1..n |-> 1],
         label |-> labels]

\* sample_dataset's loop over data_keys (lines 152-154)
Subsample(dd, sampled_split) ==
    [item_idx |-> sampled_split,
     input_ids |-> Select(dd.input_ids, sampled_split),
     attention_mask |-> Select(dd.attention_mask, sampled_split),
     rationale |-> Select(dd.rationale, sampled_split),
     inv_rationale |-> Select(dd.inv_rationale, sampled_split),
     rand_rationale |-> Select(dd.rand_rationale, sampled_split),
     has_rationale |-> Select(dd.has_rationale, sampled_split),
     label |-> Select(dd.label, sampled_split)]

\* main hands sample_dataset a loaded split and 1 <= num_samples < num_examples
SampleInit ==
    /\ AlignerIdle
    /\ BranchIdle
    /\ RunIdle
    /\ dataset = "none"
    /\ num_special_tokens = 0
    /\ \E n \in 2..MaxSplit : dataset_dict \in {SplitDict(l) : l \in [1..n -> SplitLabels]}
    /\ idx = 0
    /\ pc = "idle"
    /\ error = "none"
    /\ rng = 0
    /\ actual_max_length = 0
    /\ attempt = NoAttempt
    /\ files = NoFiles
    /\ s_pc = "start"
    /\ s_x = <<>>
    /\ s_n_samples \in 1..(Len(dataset_dict.label) - 1)
    /\ s_stratify = <<>>
    /\ sampled_idcs = <<>>

\* sample_dataset calls stratified_sampling (lines 146-147, 116-121)
CallStratifiedSampling ==
    /\ s_pc = "start"
    /\ s_x' = dataset_dict.label
    /\ s_stratify' = label_counts(dataset_dict.label)
    /\ s_pc' = IF SumSeq(s_stratify') = Len(s_x') THEN "strata" ELSE "raised"
    /\ UNCHANGED <<s_n_samples, sampled_idcs>>
    /\ UNCHANGED m_vars
    /\ UNCHANGED a_vars
    /\ UNCHANGED b_vars
    /\ UNCHANGED r_vars

\* one pass of the loop over the strata (lines 122-125)
DrawStratum ==
    /\ s_pc = "strata"
    /\ Len(sampled_idcs) < Len(s_stratify)
    /\ LET i == Len(sampled_idcs) + 1
           cum == cum_n_samples(s_stratify)
       IN  \E c \in Choice(cum[i], cum[i + 1], n_strat_samples(s_stratify, s_n_samples, Len(s_x))[i]) :
              sampled_idcs' = Append(sampled_idcs, c)
    /\ UNCHANGED <<s_pc, s_x, s_n_samples, s_stratify>>
    /\ UNCHANGED m_vars
    /\ UNCHANGED a_vars
    /\ UNCHANGED b_vars
    /\ UNCHANGED r_vars

\* n_current_samples = sum(n_strat_samples)
n_current_samples == SumSeq(n_strat_samples(s_stratify, s_n_samples, Len(s_x)))

\* the draw that makes up for the rounding (lines 128-132)
TopUp ==
    /\ s_pc = "strata"
    /\ Len(sampled_idcs) = Len(s_stratify)
    /\ n_current_samples < s_n_samples
    /\ \E c \in Choice(0, Len(s_x), s_n_samples - n_current_samples) :
          sampled_idcs' = Append(sampled_idcs, c)
    /\ s_pc' = "concatenate"
    /\ UNCHANGED <<s_x, s_n_samples, s_stratify>>
    /\ UNCHANGED m_vars
    /\ UNCHANGED a_vars
    /\ UNCHANGED b_vars
    /\ UNCHANGED r_vars

\* no rounding to make up for (line 129)
NoTopUp ==
    /\ s_pc = "strata"
    /\ Len(sampled_idcs) = Len(s_stratify)
    /\ n_current_samples >= s_n_samples
    /\ s_pc' = "concatenate"
    /\ UNCHANGED <<s_x, s_n_samples, s_stratify, sampled_idcs>>
    /\ UNCHANGED m_vars
    /\ UNCHANGED a_vars
    /\ UNCHANGED b_vars
    /\ UNCHANGED r_vars

\* sampled_idcs = np.concatenate(sampled_idcs), returned as sampled_split
sampled_split == Flatten(sampled_idcs)

\* stratified_sampling returns and sample_dataset selects the examples
\* (lines 134-137, 148, 152-156)
SelectSampled ==
    /\ s_pc = "concatenate"
    /\ dataset_dict' = Subsample(dataset_dict, sampled_split)
    /\ s_pc' = "sampled"
    /\ UNCHANGED <<dataset, num_special_tokens, idx, pc, error, rng, actual_max_length, attempt, files>>
    /\ UNCHANGED <<s_x, s_n_samples, s_stratify, sampled_idcs>>
    /\ UNCHANGED a_vars
    /\ UNCHANGED b_vars
    /\ UNCHANGED r_vars

SampleNext == CallStratifiedSampling \/ DrawStratum \/ TopUp \/ NoTopUp \/ SelectSampled

SpecSample == SampleInit /\ [][SampleNext]_vars

----------------------------------------------------------------------------
(* C24 *)

\* C24: after sample_dataset, for every label c that occurs count_c times
\* among the n examples of the full split, at least
\* floor(count_c * num_samples / n) of the sampled examples have label c,
\* in whatever order the labels occur in the split.
C24_EachLabelHasItsShare ==
    s_pc = "sampled" =>
        \A c \in SplitLabels :
            CountOf(dataset_dict.label, c) >= (CountOf(s_x, c) * s_n_samples) \div Len(s_x)

----------------------------------------------------------------------------
(* C25 *)

\* C25: the index list stratified_sampling returns has exactly n_samples
\* entries, all of them in [0, n_total) and no two of them equal.
C25_DistinctIndices ==
    s_pc \in {"concatenate", "sampled"} =>
        /\ Len(sampled_split) = s_n_samples
        /\ \A j \in 1..Len(sampled_split) : sampled_split[j] \in 0..(Len(s_x) - 1)
        /\ \A j, k \in 1..Len(sampled_split) : j # k => sampled_split[j] # sampled_split[k]

----------------------------------------------------------------------------
(* main as a whole: runs of the script over the files of one dataset,      *)
(* architecture and split                                                  *)

\* the runs looked at, one after the other
MaxRuns == 2

\* the choices of --anno_method
AnnoMethods == {"normal", "lexicon_based", "lexicon_based_all", "instance_based"}

\* src.utils.data.data_keys: the eight fields and rationale_indices
data_keys ==
    {"item_idx", "input_ids", "attention_mask", "rationale", "inv_rationale", "rand_rationale",
     "has_rationale", "label", "rationale_indices"}

\* src.utils.data.eraser_datasets, as far as main has a branch for them
eraser_datasets == {"cose", "esnli", "fever", "movies", "multirc"}

\* a file that does not exist
Absent == [exists |-> FALSE]

\* the data a build of the dataset gives under an annotation method: only the
\* sst branch reads a file chosen by anno_method (lines 444-450)
BuiltData(d, m) == IF d = "sst" THEN m ELSE "normal"

\* the files <key><suffix>.pkl of one annotation method: all holding the
\* fields of the data c, none existing, all but label.pkl existing
Family(c) == [k \in data_keys |-> c]
NoFamily == Family(Absent)
FullFamily(d, m) == Family([data |-> BuiltData(d, m), sampled |-> FALSE])
PartialFamily(d, m) == [FullFamily(d, m) EXCEPT !["label"] = Absent]

\* the directory before the first run: documents.pkl there or not (eraser
\* datasets), every method's field files there or not, or one method's
\* label file missing; no sampled files yet
FilesAtStart(d) ==
    {[documents |-> doc, fields |-> f, sampled |-> [m \in AnnoMethods |-> NoFamily],
      split |-> Absent, indices |-> Absent] :
        doc \in (IF d \in eraser_datasets THEN {Absent, [by |-> 0]} ELSE {Absent}),
        f \in {[m \in AnnoMethods |-> IF m \in on THEN FullFamily(d, m) ELSE NoFamily] :
                  on \in SUBSET AnnoMethods}
              \cup {[m \in AnnoMethods |-> IF m = p THEN PartialFamily(d, m) ELSE FullFamily(d, m)] :
                      p \in {"normal", "lexicon_based"}}}

\* the arguments of a run, the optional ones as text: "None" is Python's None
RunArgs(d) ==
    {[dataset |-> d, split |-> "train", anno_method |-> m, num_samples |-> n, pct_train_rationales |-> p] :
        m \in AnnoMethods, n \in {"None", "1"}, p \in {"None", "50"}}

\* a run that has not done anything yet
NewRun(n, found) == [n |-> n, found |-> found, dataset_dict |-> Nothing, wrote |-> {}]

RunInit ==
    /\ BuilderIdle
    /\ AlignerIdle
    /\ BranchIdle
    /\ SamplerIdle
    /\ r_pc = "start"
    /\ \E d \in {"esnli", "sst"} :
          /\ args \in RunArgs(d)
          /\ fs \in FilesAtStart(d)
    /\ r_run = NewRun(1, fs)

\* the run goes on to pos, or ends there
Goto(pos) ==
    /\ r_pc' = pos
    /\ UNCHANGED args
    /\ UNCHANGED m_vars
    /\ UNCHANGED a_vars
    /\ UNCHANGED b_vars
    /\ UNCHANGED s_vars

\* ProcessDocuments without the sys.exit() of line 243
ProcessDocuments_NoExit ==
    /\ r_pc = "start"
    /\ args.dataset \in eraser_datasets
    /\ fs.documents = Absent
    /\ fs' = [fs EXCEPT !.documents = [by |-> r_run.n]]
    /\ r_run' = [r_run EXCEPT !.wrote = @ \cup {"documents"}]
    /\ Goto("keys")

\* no documents.pkl: the documents are processed and saved, and the run
\* exits (lines 222-243)
ProcessDocuments ==
    /\ r_pc = "start"
    /\ args.dataset \in eraser_datasets
    /\ fs.documents = Absent
    /\ fs' = [fs EXCEPT !.documents = [by |-> r_run.n]]
    /\ r_run' = [r_run EXCEPT !.wrote = @ \cup {"documents"}]
    /\ Goto("exited")

\* documents.pkl is there and is loaded (lines 218-221, 245-253)
LoadDocuments ==
    /\ r_pc = "start"
    /\ args.dataset \in eraser_datasets
    /\ fs.documents # Absent
    /\ UNCHANGED <<fs, r_run>>
    /\ Goto("keys")

\* not an eraser dataset (line 213)
NoDocuments ==
    /\ r_pc = "start"
    /\ args.dataset \notin eraser_datasets
    /\ UNCHANGED <<fs, r_run>>
    /\ Goto("keys")

\* missing_data_keys (lines 254-265)
missing_data_keys ==
    {k \in data_keys : fs.fields[args.anno_method][k] = Absent}

\* the split is built (lines 266-804): the loop gets through or raises; on
\* sst without an annotation method sst_json_path is unbound at line 450
BuildSplit ==
    /\ r_pc = "keys"
    /\ args.num_samples = "None"
    /\ missing_data_keys # {}
    /\ \E ok \in (IF args.dataset = "sst" /\ args.anno_method = "normal" THEN {FALSE} ELSE BOOLEAN) :
          /\ r_run' = [r_run EXCEPT !.dataset_dict =
                          IF ok THEN Family([data |-> BuiltData(args.dataset, args.anno_method),
                                             sampled |-> FALSE])
                          ELSE @]
          /\ Goto(IF ok THEN "loaded" ELSE "raised")
    /\ UNCHANGED fs

\* dataset_dict = load_dataset(data_path): every <key>.pkl, whatever the
\* annotation method (lines 806-807, 172-177)
LoadSplit ==
    /\ r_pc = "keys"
    /\ ~(args.num_samples = "None" /\ missing_data_keys # {})
    /\ LET there == \A k \in data_keys : fs.fields["normal"][k] # Absent
       IN  /\ r_run' = [r_run EXCEPT !.dataset_dict = IF there THEN fs.fields["normal"] ELSE @]
           /\ Goto(IF there THEN "loaded" ELSE "raised")
    /\ UNCHANGED fs

\* sample_dataset (lines 809-811, 140-156): the sampled split is read from its
\* file or drawn and written; every field but rationale_indices is sub-sampled
SampleSplit ==
    /\ r_pc = "loaded"
    /\ args.num_samples # "None"
    /\ fs' = [fs EXCEPT !.split = IF @ = Absent THEN [by |-> r_run.n] ELSE @]
    /\ r_run' = [r_run EXCEPT
                    !.dataset_dict = [k \in data_keys |->
                                        IF k = "rationale_indices" THEN @[k]
                                        ELSE [@[k] EXCEPT !.sampled = TRUE]],
                    !.wrote = IF fs.split = Absent THEN @ \cup {"split"} ELSE @]
    /\ Goto("sampled")

\* where main stands after the sampling, if any
AfterSampling ==
    \/ r_pc = "loaded" /\ args.num_samples = "None"
    \/ r_pc = "sampled"

\* select_rationale_indices and sys.exit() (lines 813-820, 159-169)
SelectRationaleIndices ==
    /\ AfterSampling
    /\ args.pct_train_rationales # "None"
    /\ IF args.split # "train" THEN UNCHANGED <<fs, r_run>> /\ Goto("raised")
       ELSE /\ fs' = [fs EXCEPT !.indices = IF @ = Absent THEN [by |-> r_run.n] ELSE @]
            /\ r_run' = [r_run EXCEPT !.wrote = IF fs.indices = Absent THEN @ \cup {"indices"} ELSE @]
            /\ Goto("exited")

\* save_dataset (lines 822, 180-191)
SaveFields ==
    /\ AfterSampling
    /\ args.pct_train_rationales = "None"
    /\ IF args.num_samples = "None"
       THEN /\ fs' = [fs EXCEPT !.fields[args.anno_method] = r_run.dataset_dict]
            /\ r_run' = [r_run EXCEPT !.wrote = @ \cup {"fields"}]
       ELSE /\ fs' = [fs EXCEPT !.sampled[args.anno_method] = r_run.dataset_dict]
            /\ r_run' = [r_run EXCEPT !.wrote = @ \cup {"sampled"}]
    /\ Goto("done")

\* the run is over
RunOver == r_pc \in {"done", "exited", "raised"}

\* the script is run again on the same dataset and split
NextRun ==
    /\ RunOver
    /\ r_run.n < MaxRuns
    /\ args' \in RunArgs(args.dataset)
    /\ r_run' = NewRun(r_run.n + 1, fs)
    /\ r_pc' = "start"
    /\ UNCHANGED fs
    /\ UNCHANGED m_vars
    /\ UNCHANGED a_vars
    /\ UNCHANGED b_vars
    /\ UNCHANGED s_vars

RunNext ==
    \/ ProcessDocuments
    \/ LoadDocuments
    \/ NoDocuments
    \/ BuildSplit
    \/ LoadSplit
    \/ SampleSplit
    \/ SelectRationaleIndices
    \/ SaveFields
    \/ NextRun

SpecRun == RunInit /\ [][RunNext]_vars

----------------------------------------------------------------------------
(* C22 *)

\* C22: a run with num_samples None that finds every field file of its
\* anno_method in the split directory leaves these files with the contents
\* they had, whatever the other files hold.
C22_RebuildIsNoOp ==
    (args.num_samples = "None" /\ \A k \in data_keys : r_run.found.fields[args.anno_method][k] # Absent)
        => fs.fields[args.anno_method] = r_run.found.fields[args.anno_method]

----------------------------------------------------------------------------
(* C23 *)

\* the field files of the split, sampled or not
FieldFiles == {"fields", "sampled"}

\* C23: on an eraser dataset a run that finds no documents.pkl writes nothing
\* but documents.pkl and exits right after writing it, before the build; a
\* run that writes field files found documents.pkl; and a run that found
\* documents.pkl leaves it as it is.
C23_TwoPhaseBuild ==
    args.dataset \in eraser_datasets =>
        /\ r_run.found.documents = Absent =>
              /\ r_pc \in {"start", "exited"}
              /\ r_run.wrote \subseteq {"documents"}
              /\ r_pc = "exited" => (r_run.wrote = {"documents"} /\ fs.documents = [by |-> r_run.n])
              /\ fs.fields = r_run.found.fields
              /\ fs.sampled = r_run.found.sampled
        /\ r_run.wrote \cap FieldFiles # {} => r_run.found.documents # Absent
        /\ r_run.found.documents # Absent =>
              /\ "documents" \notin r_run.wrote
              /\ fs.documents = r_run.found.documents

\* the second run builds and saves the split from the documents.pkl that the
\* first run wrote before it exited
C23_Witness ==
    /\ args.dataset \in eraser_datasets
    /\ r_run.n = 2
    /\ r_pc = "done"
    /\ fs.documents = [by |-> 1]
    /\ r_run.found.fields[args.anno_method] = NoFamily
    /\ "fields" \in r_run.wrote

====
